---- MODULE Spec2Model ----
(***************************************************************************)
(* A model of the lexical front end of rscript-2: the line/column cursor   *)
(* of parser/lexer.rs, its token rules and the try_parse_tokens driver,    *)
(* the PrefixTree of parser/prefix.rs and Span::join of parser/types.rs.   *)
(*                                                                         *)
(* A character is a one-character string (a character outside ASCII is    *)
(* named by its code point), a Rust String or Vec<char> a sequence of      *)
(* characters, an Option<T> a sequence of length 0 or 1.                   *)
(* Rows and columns are 0-based as in the source; sequences are 1-based.   *)
(***************************************************************************)
EXTENDS Integers, Sequences, FiniteSets, TLC

VARIABLES
    src,              \* the text handed to Lexer::new
    lexer,            \* the Lexer: lines, pos, name (and whether it panicked)
    overflow_checks,  \* the build profile: TRUE panics on usize overflow, FALSE wraps
    WORD_TREE,        \* static WORD_TREE, as get_word_tree() returns it
    SYMBOL_TREE,      \* static SYMBOL_TREE, as get_symbol_tree() returns it
    SYMBOL_CHARS,     \* static SYMBOL_CHARS, as get_symbol_chars() returns it
    out,              \* try_parse_tokens: the vector of tokens pushed so far
    calls,            \* history: per next_token call, the cursor at entry and after the whitespace skip
    pc,               \* try_parse_tokens: "run", "done" (Ok), "error" (Err), "panic"
    rule,             \* the token rule last attempted on its own
    before,           \* the cursor before that attempt
    res,              \* the result of that attempt
    tree,             \* a PrefixTree under construction
    inserted,         \* history: the number of insert calls, and per key the value last inserted
    tree_pc,          \* "ok", or "panic" once an insert has panicked
    span_a,           \* the receiver of Span::join
    span_b,           \* its argument
    joined            \* the span join returned (empty until it is called)

vars == <<src, lexer, overflow_checks, WORD_TREE, SYMBOL_TREE, SYMBOL_CHARS,
          out, calls, pc, rule, before, res,
          tree, inserted, tree_pc, span_a, span_b, joined>>

-----------------------------------------------------------------------------
(* Bounds of the model.                                                    *)

\* Longest input text drawn from Alphabet for a tokenizer run.
MaxLen == 3
\* Longest input text drawn from Alphabet for a rule attempted on its own.
MaxRuleLen == 2
\* Longest key inserted into a PrefixTree.
MaxKeyLen == 2
\* Most insert calls made on one PrefixTree.
MaxInserts == 3
\* Largest row or column of a Point handed to Span::join.
MaxCoord == 2

-----------------------------------------------------------------------------
(* Characters and their classes.                                           *)

Digits == {"0", "1", "2", "3", "4", "5", "6", "7", "8", "9"}

AsciiAlphabetic ==
    {"a", "b", "c", "d", "e", "f", "g", "h", "i", "j", "k", "l", "m",
     "n", "o", "p", "q", "r", "s", "t", "u", "v", "w", "x", "y", "z",
     "A", "B", "C", "D", "E", "F", "G", "H", "I", "J", "K", "L", "M",
     "N", "O", "P", "Q", "R", "S", "T", "U", "V", "W", "X", "Y", "Z"}

\* char::is_whitespace, on the characters the model draws.
Whitespace == {" ", "\n", "\t", "\r"}

\* A character whose UTF-8 encoding is longer than one byte.
NonAscii == {"U+00E9"}

Utf8Len(ch) == IF ch \in NonAscii THEN 2 ELSE 1

\* A predicate on characters (impl Fn(char) -> bool) is the set of the
\* characters it holds of.

\* is_atom_first_char
IsAtomFirstChar == AsciiAlphabetic \cup {"_"}

\* is_numeric
IsNumeric == Digits

\* is_atom_char
IsAtomChar == IsNumeric \cup IsAtomFirstChar

\* is_whitespace
IsWhitespace == Whitespace

\* |ch| ch == '"'
IsQuote == {"\""}

-----------------------------------------------------------------------------
(* parser/prefix.rs                                                        *)

None == <<>>
Some(v) == <<v>>

\* PrefixNode::new(value), PrefixNode::root() == NewNode(None)
NewNode(value) == [value |-> value, children |-> <<>>]

\* &prefix[1..]: a slice at byte 1, which panics unless byte 1 is a character
\* boundary, that is unless the first character is one byte long.
Slice1Panics(prefix) == Utf8Len(Head(prefix)) # 1

\* PrefixNode::find: [panic, found], found an Option of the node reached.
RECURSIVE NodeFind(_, _)
NodeFind(node, prefix) ==
    IF prefix = <<>>
    THEN [panic |-> FALSE, found |-> Some(node)]
    ELSE LET first_char == Head(prefix) IN
         IF first_char \notin DOMAIN node.children
         THEN [panic |-> FALSE, found |-> None]
         ELSE IF Slice1Panics(prefix)
              THEN [panic |-> TRUE, found |-> None]
              ELSE NodeFind(node.children[first_char], Tail(prefix))

\* PrefixNode::find_or_create: [panic, node], node with the path of prefix
\* created where it was missing (each new node with value None). The entry of
\* first_char is in the map before &prefix[1..] is evaluated.
RECURSIVE NodeFindOrCreate(_, _)
NodeFindOrCreate(node, prefix) ==
    IF prefix = <<>>
    THEN [panic |-> FALSE, node |-> node]
    ELSE LET first_char == Head(prefix)
             child_ref == IF first_char \in DOMAIN node.children
                          THEN node.children[first_char]
                          ELSE NewNode(None)
         IN  IF Slice1Panics(prefix)
             THEN [panic |-> TRUE,
                   node  |-> [node EXCEPT !.children =
                                 (first_char :> child_ref) @@ node.children]]
             ELSE LET sub == NodeFindOrCreate(child_ref, Tail(prefix)) IN
                  [panic |-> sub.panic,
                   node  |-> [node EXCEPT !.children =
                                 (first_char :> sub.node) @@ node.children]]

\* An insert that keeps the value a key already has.
RECURSIVE SetValueAtKeepsOld(_, _, _)
SetValueAtKeepsOld(node, prefix, value) ==
    IF prefix = <<>>
    THEN IF node.value = None THEN [node EXCEPT !.value = Some(value)] ELSE node
    ELSE [node EXCEPT !.children[Head(prefix)] =
                          SetValueAtKeepsOld(@, Tail(prefix), value)]

\* The assignment `node.value = Some(value)` through the reference that
\* find_or_create returned: node with the value at the end of prefix set.
RECURSIVE SetValueAt(_, _, _)
SetValueAt(node, prefix, value) ==
    IF prefix = <<>>
    THEN [node EXCEPT !.value = Some(value)]
    ELSE [node EXCEPT !.children[Head(prefix)] = SetValueAt(@, Tail(prefix), value)]

\* PrefixNode::add_all_chars_to_set
RECURSIVE AddAllCharsToSet(_)
AddAllCharsToSet(node) ==
    DOMAIN node.children \cup
    UNION {AddAllCharsToSet(node.children[key]) : key \in DOMAIN node.children}

\* PrefixTree::new
NewTree == [root |-> NewNode(None)]

\* PrefixTree::insert: [panic, tree]
Insert(t, prefix, value) ==
    LET r == NodeFindOrCreate(t.root, prefix) IN
    IF r.panic
    THEN [panic |-> TRUE, tree |-> [root |-> r.node]]
    ELSE [panic |-> FALSE, tree |-> [root |-> SetValueAt(r.node, prefix, value)]]

\* PrefixTree::find: the Option of the value at the node of prefix.
Find(t, prefix) ==
    LET r == NodeFind(t.root, prefix) IN
    IF r.found = None THEN None ELSE r.found[1].value

\* PrefixTree::get_all_chars
GetAllChars(t) == AddAllCharsToSet(t.root)

\* FromIterator for PrefixTree: the pairs inserted in order, onto t. The tree
\* after each insert is bound as a value before the loop goes on (`next`), so
\* that TLC does not nest the evaluation of all the inserts.
RECURSIVE FromIter(_, _)
FromIter(t, pairs) ==
    IF pairs = <<>>
    THEN t
    ELSE CHOOSE done \in {FromIter(next, Tail(pairs)) :
                              next \in {Insert(t, pairs[1][1], pairs[1][2]).tree}} : TRUE

-----------------------------------------------------------------------------
(* parser/lexer.rs: the keyword and symbol tables                          *)

\* get_word_tree: the tree its closure builds
WordTree ==
    FromIter(NewTree,
        << <<(<<"p", "u", "b">>), "Public">>,
           <<(<<"f", "n">>), "Function">>,
           <<(<<"l", "e", "t">>), "Let">>,
           <<(<<"i", "f">>), "If">>,
           <<(<<"e", "l", "s", "e">>), "Else">>,
           <<(<<"l", "o", "o", "p">>), "Loop">>,
           <<(<<"w", "h", "i", "l", "e">>), "While">>,
           <<(<<"f", "o", "r">>), "For">>,
           <<(<<"i", "n">>), "In">>,
           <<(<<"b", "r", "e", "a", "k">>), "Break">>,
           <<(<<"c", "o", "n", "t", "i", "n", "u", "e">>), "Continue">>,
           <<(<<"r", "e", "t", "u", "r", "n">>), "Return">> >>)

\* get_symbol_tree: the tree its closure builds
SymbolTree ==
    FromIter(NewTree,
        << <<(<<".">>), "Period">>,
           <<(<<",">>), "Comma">>,
           <<(<<";">>), "Semicolon">>,
           <<(<<":">>), "Colon">>,
           <<(<<"(">>), "OpenParen">>,
           <<(<<")">>), "CloseParen">>,
           <<(<<"[">>), "OpenBracket">>,
           <<(<<"]">>), "CloseBracket">>,
           <<(<<"{">>), "OpenBrace">>,
           <<(<<"}">>), "CloseBrace">>,
           <<(<<"=">>), "Equals">>,
           <<(<<"+">>), "Plus">>,
           <<(<<"+", "=">>), "PlusEquals">>,
           <<(<<"-">>), "Minus">>,
           <<(<<"-", "=">>), "MinusEquals">>,
           <<(<<"*">>), "Times">>,
           <<(<<"*", "=">>), "TimesEquals">>,
           <<(<<"/">>), "Divide">>,
           <<(<<"/", "=">>), "DivideEquals">>,
           <<(<<"%">>), "Modulo">>,
           <<(<<"%", "=">>), "ModuloEquals">>,
           <<(<<">">>), "GreaterThan">>,
           <<(<<">", "=">>), "GreaterThanEquals">>,
           <<(<<"<">>), "LessThan">>,
           <<(<<"<", "=">>), "LessThanEquals">>,
           <<(<<"=", "=">>), "DoubleEquals">>,
           <<(<<"!", "=">>), "NotEquals">>,
           <<(<<"!">>), "Not">>,
           <<(<<".", ".">>), "ExclusiveRange">>,
           <<(<<".", ".", "=">>), "InclusiveRange">>,
           <<(<<"-", ">">>), "SingleArrow">>,
           <<(<<"=", ">">>), "DoubleArrow">> >>)

\* The three statics initialised (OnceLock::get_or_init).
Statics ==
    /\ WORD_TREE = WordTree
    /\ SYMBOL_TREE = SymbolTree
    /\ SYMBOL_CHARS = GetAllChars(SYMBOL_TREE)

statics == <<WORD_TREE, SYMBOL_TREE, SYMBOL_CHARS>>

\* |ch| symbols.contains(&ch)
IsSymbolChar == SYMBOL_CHARS

-----------------------------------------------------------------------------
(* parser/types.rs                                                         *)

\* Point
Point(row, col) == [row |-> row, col |-> col]

\* Span
Span(name, start, stop) == [name |-> name, start |-> start, stop |-> stop]

\* SpanData<T>
SpanData(span, value) == [span |-> span, value |-> value]

\* Span::join
Join(self, other) == Span(self.name, other.start, self.stop)

-----------------------------------------------------------------------------
(* parser/lexer.rs: the cursor                                             *)

\* usize::MAX. TLC's integers are 32 bits wide, so usize is modelled 30 bits
\* wide: what matters is that it exceeds every length of the model.
UsizeMax == 2^30 - 1

\* n - 1 on usize where overflow wraps (a build without overflow checks).
WrappingSub1(n) == IF n = 0 THEN UsizeMax ELSE n - 1

\* A panic: the process is gone, and the flag keeps what follows from counting.
Panic(L) == [L EXCEPT !.panicked = TRUE]

\* split_lines: the loop, with the characters left, lines and line.
RECURSIVE SplitLinesLoop(_, _, _)
SplitLinesLoop(rest, lines, line) ==
    IF rest = <<>>
    THEN Append(lines, line)
    ELSE LET ch == Head(rest) IN
         IF ch = "\n"
         THEN SplitLinesLoop(Tail(rest), Append(lines, Append(line, ch)), <<>>)
         ELSE SplitLinesLoop(Tail(rest), lines, Append(line, ch))

\* split_lines
SplitLines(text) == SplitLinesLoop(text, <<>>, <<>>)

\* Lexer::new
NewLexer(name, text) ==
    [lines |-> SplitLines(text), pos |-> Point(0, 0), name |-> name,
     panicked |-> FALSE]

\* Lexer::get_char: Some(ch), or None for Err(LexError::Eof)
GetChar(L) ==
    LET row == L.pos.row
        col == L.pos.col
    IN  IF row < Len(L.lines) /\ col < Len(L.lines[row + 1])
        THEN Some(L.lines[row + 1][col + 1])
        ELSE None

\* self.pos.col = self.lines[self.pos.row].len() - 1, with self.pos.row = row:
\* the index panics out of range, the subtraction overflows on an empty line.
ToLastCol(L, row) ==
    IF row >= Len(L.lines)
    THEN Panic(L)
    ELSE LET len == Len(L.lines[row + 1]) IN
         IF len = 0 /\ overflow_checks
         THEN Panic(L)
         ELSE [L EXCEPT !.pos = Point(row, WrappingSub1(len))]

\* A decrement_pos that does not go back over the beginning of a line.
DecrementPosStaysInLine(L) ==
    IF L.pos.row >= Len(L.lines)
    THEN ToLastCol(L, WrappingSub1(Len(L.lines)))
    ELSE [L EXCEPT !.pos.col = IF @ = 0 THEN 0 ELSE @ - 1]

\* Lexer::decrement_pos
DecrementPos(L) ==
    IF L.pos.row >= Len(L.lines)
    THEN IF Len(L.lines) = 0 /\ overflow_checks
         THEN Panic(L)
         ELSE ToLastCol(L, WrappingSub1(Len(L.lines)))
    ELSE IF L.pos.col = 0
         THEN IF L.pos.row = 0 /\ overflow_checks
              THEN Panic(L)
              ELSE ToLastCol(L, WrappingSub1(L.pos.row))
         ELSE [L EXCEPT !.pos.col = @ - 1]

\* Lexer::advance_pos
AdvancePos(L) ==
    IF L.pos.row >= Len(L.lines)
    THEN L
    ELSE LET len == Len(L.lines[L.pos.row + 1]) IN
         IF len = 0 /\ overflow_checks
         THEN Panic(L)
         ELSE IF L.pos.col >= WrappingSub1(len)
              THEN [L EXCEPT !.pos = Point(L.pos.row + 1, 0)]
              ELSE [L EXCEPT !.pos.col = @ + 1]

\* Lexer::next_char: [lexer, ch], ch = None for Err(LexError::Eof)
NextChar(L) ==
    LET ch == GetChar(L) IN
    IF ch = None
    THEN [lexer |-> L, ch |-> None]
    ELSE [lexer |-> AdvancePos(L), ch |-> ch]

-----------------------------------------------------------------------------
(* parser/lexer.rs: results                                                *)

\* LexError: its variant and what it carries, the characters of the symbol
\* for UnknownSymbol, the message as one element for Custom.
LexError(kind, msg) == [kind |-> kind, msg |-> msg]

\* Ok(value) and Err(why) of a LexResult, with the lexer as the call left it.
Ok(L, value) == [lexer |-> L, ok |-> TRUE, value |-> Some(value), err |-> None]
Err(L, why) == [lexer |-> L, ok |-> FALSE, value |-> None, err |-> Some(why)]

\* Token: its variant, the text of an Identifier or String, the f64 of a Number.
Token(kind, text, number) == [kind |-> kind, text |-> text, number |-> number]

\* try_run without the reset of the cursor.
TryRunNoReset(L, r) == r

\* Lexer::try_run, r being what func returned when run on L.
TryRun(L, r) ==
    IF ~r.ok
    THEN [r EXCEPT !.lexer.pos = L.pos]
    ELSE r

-----------------------------------------------------------------------------
(* parser/lexer.rs: reading runs of characters                             *)
(*                                                                         *)
(* A function that goes on with the result of a call is split at the call: *)
(* the operator named ...Next, ...After or ...OrElse is the rest of the    *)
(* function, given what the call returned.                                 *)

\* Lexer::empty_span
EmptySpan(L) == Span(L.name, L.pos, L.pos)

\* read_while_to storing the cursor into the wrong end of the span.
ReadWhileToEndSetsStart(L, buf) ==
    [lexer |-> L, buf |-> [buf EXCEPT !.span.start = L.pos]]

\* read_while_to after its loop: buf.span.stop = self.pos
ReadWhileToEnd(L, buf) ==
    [lexer |-> L, buf |-> [buf EXCEPT !.span.stop = L.pos]]

RECURSIVE ReadWhileTo(_, _, _)

\* read_while_to: one turn of the loop, n being what next_char() returned.
ReadWhileToNext(n, predicate, buf) ==
    IF n.ch = None
    THEN ReadWhileToEnd(n.lexer, buf)
    ELSE IF n.ch[1] \notin predicate
         THEN ReadWhileToEnd(DecrementPos(n.lexer), buf)
         ELSE ReadWhileTo(n.lexer, predicate,
                          [buf EXCEPT !.value = Append(@, n.ch[1])])

\* Lexer::read_while_to: [lexer, buf]
ReadWhileTo(L, predicate, buf) == ReadWhileToNext(NextChar(L), predicate, buf)

\* Lexer::read_while: [lexer, buf]
ReadWhile(L, predicate) ==
    ReadWhileTo(L, predicate, SpanData(Span(L.name, L.pos, L.pos), <<>>))

RECURSIVE SkipWhitespace(_)

\* A skip_whitespace that steps back at the end of input too.
SkipWhitespaceNextStepsBackAtEof(n) ==
    IF n.ch # None /\ n.ch[1] \in IsWhitespace
    THEN SkipWhitespace(n.lexer)
    ELSE DecrementPos(n.lexer)

\* skip_whitespace: one turn of the loop, n being what next_char() returned.
SkipWhitespaceNext(n) ==
    IF n.ch = None
    THEN n.lexer
    ELSE IF n.ch[1] \notin IsWhitespace
         THEN DecrementPos(n.lexer)
         ELSE SkipWhitespace(n.lexer)

\* Lexer::skip_whitespace
SkipWhitespace(L) == SkipWhitespaceNext(NextChar(L))

\* try_parse_char, n being what next_char() returned.
TryParseCharNext(n, predicate) ==
    IF n.ch = None
    THEN Err(n.lexer, LexError("Eof", <<>>))
    ELSE IF n.ch[1] \in predicate
         THEN Ok(n.lexer, n.ch[1])
         ELSE Err(DecrementPos(n.lexer),
                  LexError("Custom", <<"character failed predicate">>))

\* Lexer::try_parse_char: Ok(ch), or Err with the cursor stepped back
TryParseChar(L, predicate) == TryParseCharNext(NextChar(L), predicate)

\* Lexer::is_done
IsDone(L) == GetChar(L) = None

-----------------------------------------------------------------------------
(* parser/lexer.rs: the token rules                                        *)

\* try_parse_atom: the token of the text read, a reserved word or an identifier.
AtomToken(text) ==
    IF Find(WORD_TREE, text) # None
    THEN Token(Find(WORD_TREE, text)[1], <<>>, None)
    ELSE Token("Identifier", text, None)

\* try_parse_atom after read_while_to, rest being [lexer, buf] as it left them.
AtomAfterRest(rest) ==
    Ok(rest.lexer, SpanData(rest.buf.span, AtomToken(rest.buf.value)))

\* try_parse_atom after the first character, first being what try_parse_char
\* returned.
AtomAfterFirst(L, first) ==
    IF ~first.ok
    THEN Err(first.lexer, LexError("ExpectedAtom", <<>>))
    ELSE AtomAfterRest(
             ReadWhileTo(first.lexer, IsAtomChar,
                         SpanData(Span(L.name, L.pos, first.lexer.pos),
                                  <<first.value[1]>>)))

\* The body of try_parse_atom's closure.
AtomBody(L) == AtomAfterFirst(L, TryParseChar(L, IsAtomFirstChar))

\* Lexer::try_parse_atom
TryParseAtom(L) == TryRun(L, AtomBody(L))

RECURSIVE StringLoop(_, _, _)

\* try_parse_string: one turn of the loop, n being what next_char() returned.
StringLoopNext(n, prev_ch, buf) ==
    IF n.ch = None
    THEN [lexer |-> n.lexer, buf |-> buf]
    ELSE IF prev_ch = "\\"
         THEN StringLoop(n.lexer, n.ch[1], Append(buf, n.ch[1]))
         ELSE IF n.ch[1] = "\""
              THEN [lexer |-> n.lexer, buf |-> buf]
              ELSE StringLoop(n.lexer, n.ch[1], Append(buf, n.ch[1]))

\* try_parse_string: the while-let loop, [lexer, buf]
StringLoop(L, prev_ch, buf) == StringLoopNext(NextChar(L), prev_ch, buf)

\* try_parse_string after the loop, loop being [lexer, buf] as it left them.
StringAfterLoop(start, loop) ==
    Ok(loop.lexer,
       SpanData([EmptySpan(loop.lexer) EXCEPT !.start = start],
                Token("String", loop.buf, None)))

\* try_parse_string after the opening quote, quote being what try_parse_char
\* returned.
StringAfterQuote(L, quote) ==
    IF ~quote.ok
    THEN Err(quote.lexer, quote.err[1])
    ELSE StringAfterLoop(L.pos, StringLoop(quote.lexer, "\"", <<>>))

\* The body of try_parse_string's closure.
StringBody(L) == StringAfterQuote(L, TryParseChar(L, IsQuote))

\* Lexer::try_parse_string
TryParseString(L) == TryRun(L, StringBody(L))

\* try_parse_symbol after read_while, symbol_text being [lexer, buf].
SymbolAfterRead(symbol_text) ==
    IF Find(SYMBOL_TREE, symbol_text.buf.value) = None
    THEN Err(symbol_text.lexer,
             LexError("UnknownSymbol", symbol_text.buf.value))
    ELSE Ok(symbol_text.lexer,
            SpanData(symbol_text.buf.span,
                     Token(Find(SYMBOL_TREE, symbol_text.buf.value)[1], <<>>, None)))

\* The body of try_parse_symbol's closure.
SymbolBody(L) == SymbolAfterRead(ReadWhile(L, IsSymbolChar))

\* Lexer::try_parse_symbol
TryParseSymbol(L) == TryRun(L, SymbolBody(L))

\* An f64 that a decimal literal denotes: mantissa / 10^scale, with no
\* trailing zero in the fraction.
RECURSIVE F64(_, _)
F64(mantissa, scale) ==
    IF scale > 0 /\ mantissa % 10 = 0
    THEN F64(mantissa \div 10, scale - 1)
    ELSE [mantissa |-> mantissa, scale |-> scale]

\* The number a run of decimal digits denotes.
RECURSIVE DecimalValue(_)
DecimalValue(digits) ==
    IF digits = <<>>
    THEN 0
    ELSE 10 * DecimalValue(SubSeq(digits, 1, Len(digits) - 1))
         + (CHOOSE d \in 0..9 : ToString(d) = digits[Len(digits)])

\* A parse that takes the empty text for 0.
ParseF64AcceptsEmpty(text) ==
    IF \A i \in DOMAIN text : text[i] \in Digits
    THEN Some(F64(DecimalValue(text), 0))
    ELSE None

\* str::parse::<f64> on a text of digits and '.': Digit+, Digit+ '.' Digit* and
\* Digit* '.' Digit+ are numbers; "", "." and a text with two '.' are not.
ParseF64(text) ==
    LET dots == {i \in DOMAIN text : text[i] = "."}
        dot == CHOOSE i \in dots : TRUE
        int == IF dots = {} THEN text ELSE SubSeq(text, 1, dot - 1)
        frac == IF dots = {} THEN <<>> ELSE SubSeq(text, dot + 1, Len(text))
    IN  IF \/ \E i \in DOMAIN text : text[i] \notin Digits \cup {"."}
           \/ Cardinality(dots) > 1
           \/ Len(int) + Len(frac) = 0
        THEN None
        ELSE Some(F64(DecimalValue(int \o frac), Len(frac)))

\* try_parse_number after the match: number.value.parse(), and the result.
NumberValue(L, number) ==
    IF ParseF64(number.value) = None
    THEN Err(L, LexError("ExpectedNumber", <<>>))
    ELSE Ok(L, SpanData(number.span, ParseF64(number.value)[1]))

\* try_parse_number: the arm Ok('.') of the match, post being what
\* read_while(is_numeric) returned after the '.'.
NumberAfterPeriod(number, post) ==
    IF post.buf.value # <<>>
    THEN NumberValue(DecrementPos(post.lexer), number)
    ELSE NumberValue(post.lexer,
                     [number EXCEPT
                         !.value = Append(@, ".") \o post.buf.value,
                         !.span.stop = post.buf.span.stop])

\* try_parse_number: the match on next_char(), number being what
\* read_while(is_numeric) read and n what next_char() returned.
NumberMatch(number, n) ==
    IF n.ch = Some(".")
    THEN NumberAfterPeriod(number, ReadWhile(n.lexer, IsNumeric))
    ELSE IF n.ch # None
         THEN NumberValue(DecrementPos(n.lexer), number)
         ELSE IF number.value # <<>>
              THEN NumberValue(n.lexer, number)
              ELSE Err(n.lexer, LexError("Eof", <<>>))

\* try_parse_number after read_while(is_numeric), read being what it returned.
NumberAfterDigits(read) == NumberMatch(read.buf, NextChar(read.lexer))

\* The body of try_parse_number's closure.
NumberBody(L) == NumberAfterDigits(ReadWhile(L, IsNumeric))

\* Lexer::try_parse_number
TryParseNumber(L) == TryRun(L, NumberBody(L))

\* try_parse_number_token after try_parse_number()?, num being what it returned.
NumberTokenAfter(num) ==
    IF ~num.ok
    THEN num
    ELSE Ok(num.lexer,
            SpanData(num.value[1].span,
                     Token("Number", <<>>, Some(num.value[1].value))))

\* The body of try_parse_number_token's closure.
NumberTokenBody(L) == NumberTokenAfter(TryParseNumber(L))

\* Lexer::try_parse_number_token
TryParseNumberToken(L) == TryRun(L, NumberTokenBody(L))

\* next_token: .or_else(|_| self.try_parse_symbol()) on what the number rule
\* returned.
NumberOrElse(number) ==
    IF number.ok THEN number ELSE TryParseSymbol(number.lexer)

\* next_token: .or_else(|_| self.try_parse_number_token()) and what follows.
StringOrElse(string) ==
    IF string.ok THEN string ELSE NumberOrElse(TryParseNumberToken(string.lexer))

\* next_token: .or_else(|_| self.try_parse_string()) and what follows.
AtomOrElse(atom) ==
    IF atom.ok THEN atom ELSE StringOrElse(TryParseString(atom.lexer))

\* next_token after skip_whitespace. The value of the result is the Option
\* inside the Ok: Some(token) for Ok(Some(token)), None for Ok(None).
NextTokenAfterSkip(skipped) ==
    IF ~IsDone(skipped)
    THEN AtomOrElse(TryParseAtom(skipped))
    ELSE [lexer |-> skipped, ok |-> TRUE, value |-> None, err |-> None]

\* Lexer::next_token
NextToken(L) == NextTokenAfterSkip(SkipWhitespace(L))

-----------------------------------------------------------------------------
(* The inputs the model draws.                                             *)

\* One character of each class the rules tell apart: a letter, a digit, the
\* period, the quote, the backslash, a blank, the newline, two symbol
\* characters and a character no rule accepts.
Alphabet == {"a", "1", ".", "\"", "\\", " ", "\n", "=", ";", "@"}

\* The texts over Alphabet of length at most n.
Texts(n) == UNION {[1..k -> Alphabet] : k \in 0..n}

\* "let x = 12.5;\n"
LetText == <<"l", "e", "t", " ", "x", " ", "=", " ", "1", "2", ".", "5", ";", "\n">>

\* Longer texts of the specification's examples.
Scenarios ==
    { LetText,
      <<"l", "e", "t", "s">>,
      <<"i", "f", " ", "1", "2", "3", ".">>,
      <<"\"", "a", "\\", "\"", "b", "\"">>,
      <<"\"", "\\", "\\", "\"", "a">>,
      <<"a", "\n", "\n", "1", ".", "2", "5", "\n">> }

SourceName == "<stdin>"

\* The offset in the text of a cursor position.
RECURSIVE Offset(_, _)
Offset(lines, p) ==
    IF p.row = 0 \/ lines = <<>>
    THEN p.col
    ELSE Len(lines[1]) + Offset(Tail(lines), Point(p.row - 1, p.col))

\* The characters of the text from position p up to position q.
Slice(p, q) == SubSeq(src, Offset(lexer.lines, p) + 1, Offset(lexer.lines, q))

PosLe(p, q) == p.row < q.row \/ (p.row = q.row /\ p.col <= q.col)
PosLt(p, q) == PosLe(p, q) /\ p # q

-----------------------------------------------------------------------------
(* What each specification leaves idle.                                    *)

RunIdle == out = <<>> /\ calls = <<>> /\ pc = "idle"
RulesIdle == rule = "none" /\ before = Point(0, 0) /\ res = None
LexerIdle ==
    /\ Statics
    /\ src = <<>>
    /\ lexer = NewLexer(SourceName, <<>>)
    /\ overflow_checks = TRUE
    /\ RunIdle
    /\ RulesIdle
TreeIdle == tree = NewTree /\ inserted = [calls |-> 0, last |-> <<>>] /\ tree_pc = "idle"
SpanIdle ==
    /\ span_a = Span(SourceName, Point(0, 0), Point(0, 0))
    /\ span_b = Span(SourceName, Point(0, 0), Point(0, 0))
    /\ joined = None

lexerVars == <<src, lexer, overflow_checks, statics, out, calls, pc, rule, before, res>>
treeVars == <<tree, inserted, tree_pc>>
spanVars == <<span_a, span_b, joined>>

-----------------------------------------------------------------------------
(* Spec: Lexer::new followed by try_parse_tokens, one next_token call a    *)
(* step.                                                                   *)

Init ==
    /\ Statics
    /\ src \in Texts(MaxLen) \cup Scenarios
    /\ overflow_checks \in BOOLEAN
    /\ lexer = NewLexer(SourceName, src)
    /\ out = <<>>
    /\ calls = <<>>
    /\ pc = "run"
    /\ RulesIdle /\ TreeIdle /\ SpanIdle

\* What a next_token call adds to the history.
Called == Append(calls, [entry |-> lexer.pos, skipped |-> SkipWhitespace(lexer).pos])

\* while let Some(token) = self.next_token()? { out.push(token); }
PushToken ==
    /\ pc = "run"
    /\ \E r \in {NextToken(lexer)} :
       /\ ~r.lexer.panicked /\ r.ok /\ r.value # None
       /\ lexer' = r.lexer
       /\ out' = Append(out, r.value[1])
    /\ calls' = Called
    /\ UNCHANGED <<src, overflow_checks, statics, pc, rule, before, res, treeVars, spanVars>>

\* next_token returned Ok(None): the loop ends and try_parse_tokens is Ok(out).
ReturnOk ==
    /\ pc = "run"
    /\ \E r \in {NextToken(lexer)} :
       /\ ~r.lexer.panicked /\ r.ok /\ r.value = None
       /\ lexer' = r.lexer
    /\ calls' = Called
    /\ pc' = "done"
    /\ UNCHANGED <<src, overflow_checks, statics, out, rule, before, res, treeVars, spanVars>>

\* next_token returned Err (the ? returns it), or the call panicked.
ReturnErr ==
    /\ pc = "run"
    /\ \E r \in {NextToken(lexer)} :
       /\ r.lexer.panicked \/ ~r.ok
       /\ lexer' = r.lexer
       /\ pc' = IF r.lexer.panicked THEN "panic" ELSE "error"
       /\ res' = IF r.lexer.panicked THEN None ELSE r.err
    /\ calls' = Called
    /\ UNCHANGED <<src, overflow_checks, statics, out, rule, before, treeVars, spanVars>>

Next == PushToken \/ ReturnOk \/ ReturnErr

Spec == Init /\ [][Next]_vars

-----------------------------------------------------------------------------
(* SpecRules: a Lexer on which next_char and the token rules are called    *)
(* one at a time, in any order, from wherever the cursor is.               *)

InitRules ==
    /\ Statics
    /\ src \in Texts(MaxRuleLen) \cup Scenarios
    /\ overflow_checks \in BOOLEAN
    /\ lexer = NewLexer(SourceName, src)
    /\ RunIdle /\ RulesIdle /\ TreeIdle /\ SpanIdle

Attempt(name, r) ==
    /\ ~lexer.panicked
    /\ rule' = name
    /\ before' = lexer.pos
    /\ res' = [ok |-> r.ok, value |-> r.value, err |-> r.err]
    /\ lexer' = r.lexer
    /\ UNCHANGED <<src, overflow_checks, statics, out, calls, pc, treeVars, spanVars>>

\* The result of next_char holds the character read in a record of its own.
CallNextChar ==
    \E n \in {NextChar(lexer)} :
        Attempt("next_char",
                IF n.ch = None THEN Err(n.lexer, LexError("Eof", <<>>))
                               ELSE Ok(n.lexer, [ch |-> n.ch[1]]))

CallTryParseAtom == Attempt("atom", TryParseAtom(lexer))
CallTryParseString == Attempt("string", TryParseString(lexer))
CallTryParseNumber == Attempt("number", TryParseNumber(lexer))
CallTryParseNumberToken == Attempt("number_token", TryParseNumberToken(lexer))
CallTryParseSymbol == Attempt("symbol", TryParseSymbol(lexer))

NextRules ==
    \/ CallNextChar
    \/ CallTryParseAtom
    \/ CallTryParseString
    \/ CallTryParseNumber
    \/ CallTryParseNumberToken
    \/ CallTryParseSymbol

SpecRules == InitRules /\ [][NextRules]_vars

TokenRules == {"atom", "string", "number", "number_token", "symbol"}

-----------------------------------------------------------------------------
(* SpecTree: a PrefixTree built by insert calls, as FromIterator makes     *)
(* them.                                                                   *)

\* The characters of the keys: two symbol characters and one that is two
\* bytes long in UTF-8.
TreeAlphabet == {"=", ".", "U+00E9"}

\* The values inserted.
TreeValues == {"Equals", "Period"}

\* The keys of length at most n.
Keys(n) == UNION {[1..k -> TreeAlphabet] : k \in 0..n}

InitTree ==
    /\ LexerIdle
    /\ tree = NewTree
    /\ inserted = [calls |-> 0, last |-> <<>>]
    /\ tree_pc = "ok"
    /\ SpanIdle

\* tree.insert(key, value)
TreeInsert ==
    /\ tree_pc = "ok"
    /\ inserted.calls < MaxInserts
    /\ \E key \in Keys(MaxKeyLen), value \in TreeValues :
       \E r \in {Insert(tree, key, value)} :
          /\ tree' = r.tree
          /\ tree_pc' = IF r.panic THEN "panic" ELSE "ok"
          /\ inserted' = [calls |-> inserted.calls + 1,
                          last  |-> IF r.panic
                                    THEN inserted.last
                                    ELSE (key :> value) @@ inserted.last]
    /\ UNCHANGED <<lexerVars, spanVars>>

NextTree == TreeInsert

SpecTree == InitTree /\ [][NextTree]_vars

-----------------------------------------------------------------------------
(* SpecSpan: one call of Span::join on two spans of the same source.       *)

PosMin(p, q) == IF PosLe(p, q) THEN p ELSE q
PosMax(p, q) == IF PosLe(p, q) THEN q ELSE p

\* The points of rows and columns up to n, and the spans between them.
Points(n) == {Point(row, col) : row \in 0..n, col \in 0..n}
Spans(n) ==
    {span \in {Span(SourceName, p, q) : p \in Points(n), q \in Points(n)} :
        PosLe(span.start, span.stop)}

InitSpan ==
    /\ LexerIdle
    /\ TreeIdle
    /\ span_a \in Spans(MaxCoord)
    /\ span_b \in Spans(MaxCoord)
    /\ joined = None

\* joined = span_a.join(&span_b)
DoJoin ==
    /\ joined = None
    /\ joined' = Some(Join(span_a, span_b))
    /\ UNCHANGED <<lexerVars, treeVars, span_a, span_b>>

NextSpan == DoJoin

SpecSpan == InitSpan /\ [][NextSpan]_vars

-----------------------------------------------------------------------------
(* SpecCursor: a Lexer whose cursor next_char has moved onto a character,  *)
(* then advance_pos called once and decrement_pos called once after it.    *)

InitCursor ==
    /\ Statics
    /\ src \in Texts(MaxRuleLen) \cup Scenarios
    /\ overflow_checks \in BOOLEAN
    /\ lexer = NewLexer(SourceName, src)
    /\ RunIdle /\ RulesIdle /\ TreeIdle /\ SpanIdle

\* self.next_char(), to bring the cursor onto the next character.
CursorNextChar ==
    /\ rule = "none"
    /\ ~lexer.panicked
    /\ NextChar(lexer).ch # None
    /\ lexer' = NextChar(lexer).lexer
    /\ UNCHANGED <<src, overflow_checks, statics, out, calls, pc, rule, before, res,
                   treeVars, spanVars>>

\* self.advance_pos(), with the cursor on a character.
CursorAdvancePos ==
    /\ rule = "none"
    /\ ~lexer.panicked
    /\ GetChar(lexer) # None
    /\ rule' = "advance_pos"
    /\ before' = lexer.pos
    /\ lexer' = AdvancePos(lexer)
    /\ UNCHANGED <<src, overflow_checks, statics, out, calls, pc, res, treeVars, spanVars>>

\* self.decrement_pos(), after that advance_pos.
CursorDecrementPos ==
    /\ rule = "advance_pos"
    /\ ~lexer.panicked
    /\ rule' = "decrement_pos"
    /\ lexer' = DecrementPos(lexer)
    /\ UNCHANGED <<src, overflow_checks, statics, out, calls, pc, before, res,
                   treeVars, spanVars>>

NextCursor == CursorNextChar \/ CursorAdvancePos \/ CursorDecrementPos

SpecCursor == InitCursor /\ [][NextCursor]_vars

-----------------------------------------------------------------------------
(* The claims of the specification.                                        *)

\* The variants of the tokens pushed.
Kinds(tokens) == [i \in DOMAIN tokens |-> tokens[i].value.kind]

\* The offset in the text of the cursor before and after a rule's attempt.
Before == Offset(lexer.lines, before)
After == Offset(lexer.lines, lexer.pos)

\* The length of the run of characters of a set that starts at index i.
RECURSIVE RunLen(_, _)
RunLen(i, set) ==
    IF i <= Len(src) /\ src[i] \in set THEN 1 + RunLen(i + 1, set) ELSE 0

\* C1: whenever a token rule (atom, string, number, number token, symbol)
\* returns an error, the cursor after the attempt is the cursor before it.
C1_FailedRuleRestoresCursor ==
    (rule \in TokenRules /\ ~lexer.panicked /\ ~res.ok) => lexer.pos = before

\* C1 at work: the symbol rule read two characters or more, found no symbol
\* of that text, and the cursor is back where the rule began.
C1_Witness ==
    /\ rule = "symbol"
    /\ ~lexer.panicked
    /\ ~res.ok
    /\ res.err[1].kind = "UnknownSymbol"
    /\ Len(res.err[1].msg) >= 2
    /\ lexer.pos = before

\* C2: the number rule, begun on digits that a '.' follows, succeeds; if a
\* digit follows the '.', its value and span cover the integer digits, the '.'
\* and the fraction digits and the cursor is left after the last of them;
\* otherwise its value and span are those of the integer digits and the
\* cursor is left on the '.'.
C2_PeriodConsumedIffDigitFollows ==
    (/\ rule = "number"
     /\ ~lexer.panicked
     /\ RunLen(Before + 1, Digits) > 0
     /\ RunLen(Before + 1 + RunLen(Before + 1, Digits), {"."}) > 0)
    => LET int == RunLen(Before + 1, Digits)
           frac == RunLen(Before + int + 2, Digits)
           stop == IF frac > 0 THEN Before + int + 1 + frac ELSE Before + int
       IN  /\ res.ok
           /\ After = stop
           /\ res.value[1].span = Span(SourceName, before, lexer.pos)
           /\ Some(res.value[1].value) = ParseF64(SubSeq(src, Before + 1, stop))

\* C3: tokenizing "==" yields the one token DoubleEquals, and tokenizing "=;"
\* yields Equals then Semicolon.
C3_SymbolRunStopsBeforeSemicolon ==
    pc # "run" =>
        /\ src = <<"=", "=">> => pc = "done" /\ Kinds(out) = <<"DoubleEquals">>
        /\ src = <<"=", ";">> => pc = "done" /\ Kinds(out) = <<"Equals", "Semicolon">>

\* The text that the first i next_token calls account for: per call the
\* whitespace it skipped, then the text its token's span covers.
RECURSIVE Covered(_)
Covered(i) ==
    IF i = 0
    THEN <<>>
    ELSE Covered(i - 1) \o Slice(calls[i].entry, calls[i].skipped)
                        \o Slice(out[i].span.start, out[i].span.stop)

\* C4: when try_parse_tokens succeeds, the texts its tokens' spans cover, in
\* order, with the whitespace skipped before each and after the last, make up
\* the input again.
C4_SpansAndWhitespaceRebuildInput ==
    pc = "done" =>
        Covered(Len(out)) \o Slice(calls[Len(calls)].entry, calls[Len(calls)].skipped) = src

\* C5: the string rule, begun on a '"' that no '"' follows, returns the
\* end-of-input error and leaves the cursor on the opening quote.
C5_UnterminatedStringFails ==
    (/\ rule = "string"
     /\ ~lexer.panicked
     /\ RunLen(Before + 1, {"\""}) > 0
     /\ \A i \in (Before + 2)..Len(src) : src[i] # "\"")
    => /\ ~res.ok
       /\ res.err[1].kind = "Eof"
       /\ lexer.pos = before

\* The index of the first '"' from index i on that no escape marker covers,
\* a '\' covering exactly the character after it; 0 if there is none.
RECURSIVE ClosingQuote(_, _)
ClosingQuote(i, escaped) ==
    IF i > Len(src) THEN 0
    ELSE IF escaped THEN ClosingQuote(i + 1, FALSE)
    ELSE IF src[i] = "\\" THEN ClosingQuote(i + 1, TRUE)
    ELSE IF src[i] = "\"" THEN i
    ELSE ClosingQuote(i + 1, FALSE)

\* C6: the string rule, begun on a '"', ends its literal at the first '"'
\* that is not escaped, where a '\' escapes exactly the one character after it
\* and an escaped character (an escaped '\' too) escapes nothing: the rule
\* succeeds and leaves the cursor right after that '"'.
C6_EscapeCoversOneCharacter ==
    (/\ rule = "string"
     /\ ~lexer.panicked
     /\ RunLen(Before + 1, {"\""}) > 0
     /\ ClosingQuote(Before + 2, FALSE) > 0)
    => /\ res.ok
       /\ After = ClosingQuote(Before + 2, FALSE)

TokenKinds ==
    {"Number", "Boolean", "String", "Identifier"}
    \cup {"Public", "Function", "Let", "If", "Else", "Loop", "While", "For",
          "In", "Return", "Break", "Continue"}
    \cup {"ExclusiveRange", "InclusiveRange", "OpenBracket", "CloseBracket",
          "OpenBrace", "CloseBrace", "OpenParen", "CloseParen", "Period",
          "Comma", "Semicolon", "Colon", "Equals", "DoubleEquals", "Plus",
          "PlusEquals", "Minus", "MinusEquals", "Times", "TimesEquals",
          "Divide", "DivideEquals", "Modulo", "ModuloEquals", "GreaterThan",
          "GreaterThanEquals", "LessThan", "LessThanEquals", "NotEquals",
          "Not", "SingleArrow", "DoubleArrow"}

\* C8: when try_parse_tokens succeeds, each token's span starts at or before
\* its stop and at or after the stop of the token before it, and no token is
\* whitespace: each is a variant of Token that begins on a character that is
\* not whitespace.
C8_TokensInSourceOrder ==
    pc = "done" =>
        \A i \in DOMAIN out :
            /\ PosLe(out[i].span.start, out[i].span.stop)
            /\ i > 1 => PosLe(out[i - 1].span.stop, out[i].span.start)
            /\ out[i].value.kind \in TokenKinds
            /\ src[Offset(lexer.lines, out[i].span.start) + 1] \notin IsWhitespace

\* C8 at work: try_parse_tokens succeeded with a token on a later line than
\* the token before it.
C8_Witness ==
    /\ pc = "done"
    /\ Len(out) >= 2
    /\ out[2].span.start.row > out[1].span.stop.row

\* Every next_token call that returned a token left the cursor strictly
\* after the position it had when the call began.
StrictProgress ==
    \A i \in DOMAIN out :
        PosLt(calls[i].entry,
              IF i < Len(calls) THEN calls[i + 1].entry ELSE lexer.pos)

\* C9: every next_token call that returns a token moves the cursor strictly
\* forward, so there are never more tokens than characters of the input, and
\* try_parse_tokens has returned (the token list or an error) by the call
\* after as many calls as the input has characters.
C9_TokenizingTerminates ==
    /\ StrictProgress
    /\ Len(out) <= Len(src)
    /\ Len(calls) <= Len(src) + 1
    /\ Len(calls) = Len(src) + 1 => pc # "run"

\* C9 at work: try_parse_tokens returned after three tokens or more.
C9_Witness ==
    /\ pc = "done"
    /\ Len(out) >= 3
    /\ StrictProgress

\* C10: a.join(b) has the name of a, the earlier of the two starts and the
\* later of the two stops, whichever of a and b comes first.
C10_JoinIsUnion ==
    joined # None =>
        joined[1] = Span(span_a.name,
                         PosMin(span_a.start, span_b.start),
                         PosMax(span_a.stop, span_b.stop))

\* C11: with the cursor on a character, advance_pos followed by decrement_pos
\* brings the cursor back to the row and column it had, also when the advance
\* went over the end of a line or over the last character of the last line.
C11_DecrementUndoesAdvance ==
    rule = "decrement_pos" => ~lexer.panicked /\ lexer.pos = before

\* C11 at work: the cursor was advanced past the last character of the last
\* line of a text of two lines or more, and decrement_pos brought it back.
C11_Witness ==
    /\ rule = "decrement_pos"
    /\ before.row >= 1
    /\ before.row + 1 = Len(lexer.lines)
    /\ before.col + 1 = Len(lexer.lines[before.row + 1])
    /\ lexer.pos = before

\* C12: while tokenizing, the cursor arithmetic never underflows. A
\* decrement_pos at (0, 0), and a len - 1 on an empty line in decrement_pos or
\* advance_pos, panic where overflow is checked, and every input is tokenized
\* under both build profiles; the flag of a panic stays set. So no call
\* panics, and the row and the column never wrap around: the row is at most
\* the number of lines and the column at most the length of the input.
C12_NoCursorUnderflow ==
    /\ ~lexer.panicked
    /\ pc # "panic"
    /\ lexer.pos.row <= Len(lexer.lines)
    /\ lexer.pos.col <= Len(src)

\* C12 at work: overflow is checked, the input ends in a digit and a newline,
\* so that the number rule stepped back from column 0 of the empty last line,
\* and try_parse_tokens succeeded.
C12_Witness ==
    /\ overflow_checks
    /\ pc = "done"
    /\ Len(src) >= 2
    /\ src[Len(src)] = "\n"
    /\ src[Len(src) - 1] \in Digits
    /\ lexer.lines[Len(lexer.lines)] = <<>>
    /\ ~lexer.panicked

====
